---- MODULE Spec2Model ----
(***************************************************************************)
(* State-machine model of YoutubeDownload.py: the resumable download loop  *)
(* download_with_retries, its escalation handle_download_failure, the      *)
(* dual-track sequencing of download_video and the cleanup of main (Spec), *)
(* and of the catalog listing list_available_streams (CatalogSpec).        *)
(*                                                                         *)
(* A file is a sequence of bytes; a remote resource is a sequence of       *)
(* distinct bytes, so that appending the wrong range shows in the content. *)
(* Time is the number of seconds elapsed since start_time of the current   *)
(* attempt, which is all the code ever reads from the clock.               *)
(***************************************************************************)
EXTENDS Integers, Sequences, FiniteSets, TLC

\* ---------------------------------------------------------------- bounds
ResourceSize == 2      \* bytes in each remote resource
MaxContinues == 1      \* times the user answers 's' after exhausted retries
MaxInvalidAnswers == 1 \* answers other than 's' and 'n' to one prompt
MaxStreams == 3        \* renditions in the catalog handed to list_available_streams

\* ------------------------------------------------------ program constants
\* defaults of download_with_retries, the only values the program calls it with
max_attempts == 7
base_wait_time == 5
reset_interval == 60

Tracks == {"video", "audio"}

\* the two remote resources; bytes are distinct within and across resources
Resource(t) == [i \in 1..ResourceSize |-> IF t = "video" THEN i ELSE ResourceSize + i]

\* what can already be on disk under a destination name: a partial download
Prefixes(s) == {SubSeq(s, 1, n) : n \in 0..Len(s)}

\* longest file the model lets a transfer grow to: a server that ignores the
\* Range header and sends the whole body is met at offsets 0 and 1 only
MaxFileLen == ResourceSize + 1

\* span of one attempt, in seconds, from start_time to the failure
Spans == {0, reset_interval + 1}

\* statuses other than 200, 206 and 416
OtherStatuses == {"403"}

\* containers the selected rendition may have
Extensions == {"mp4", "3gpp"}

codec_map == {"mp4", "webm", "mkv"}

VARIABLES
    pc,                 \* position of the single thread of control
    cur,                \* track whose transfer is running
    includes_audio_track, \* selected_stream.includes_audio_track
    audio_stream,       \* an audio-only rendition exists in the catalog
    video_extension,    \* selected_stream.mime_type.split('/')[1]
    exists,             \* exists[t]: os.path.exists of t's destination
    content,            \* content[t]: bytes last held by t's destination file
    attempt,            \* local of download_with_retries
    total_attempts,     \* local of download_with_retries
    wait_time,          \* parameter/local of download_with_retries
    elapsed,            \* time.time() - start_time
    body,               \* bytes of the response not yet read
    progress_bar,       \* global progress_bar: undefined, open or closed
    paths_set,          \* 'video_path' in globals() (and audio_path)
    pending,            \* exception in flight when main's finally starts
    final,              \* how the process ended
    outcome,            \* outcome[t]: how t's latest invocation ended
    status,             \* status code of the response in hand
    gets,               \* requests.get calls of the latest invocation
    sleeps,             \* time.sleep calls of the latest invocation
    only_transient,     \* every attempt of the latest invocation failed transiently
    long_span,          \* some attempt of it spanned more than reset_interval
    content0,           \* the destination file when the latest invocation began
    range_offset,       \* file_size put in the Range header of the request in hand
    content_range,      \* content-range header of the response in hand
    invalid_answers,    \* answers other than 's' and 'n' to the prompt in hand
    continues,          \* number of 's' answers so far
    combiner,           \* the VideoFileClip/AudioFileClip merge: idle, running, done, failed
    logged,             \* the log message with which the download was given up
    remove_failed,      \* tracks whose os.remove raised OSError
    remove_tried,       \* tracks whose os.remove was called
    streams,            \* yt.streams, the catalog handed to list_available_streams
    available_streams   \* what list_available_streams did with it

vars == <<pc, cur, includes_audio_track, audio_stream, video_extension, exists, content,
          attempt, total_attempts, wait_time, elapsed, body, progress_bar,
          paths_set, pending, final, outcome, status, gets, sleeps,
          only_transient, long_span, content0, range_offset, content_range,
          invalid_answers, continues, combiner, logged, remove_failed,
          remove_tried, streams, available_streams>>

inputs == <<includes_audio_track, audio_stream, video_extension, streams,
            available_streams>>
files == <<exists, content>>
locals == <<attempt, total_attempts, wait_time, elapsed>>
history == <<outcome, status, gets, sleeps, only_transient, long_span, content0,
             range_offset, content_range, invalid_answers>>
ending == <<pending, final, remove_failed, remove_tried>>

\* list_available_streams has not been called; Spec starts after the listing
\* and the user's selection and leaves the catalog aside
NotListed == [raised |-> "none", list |-> <<>>]

FileInit(t) ==
    {[e |-> FALSE, c |-> <<>>]} \cup {[e |-> TRUE, c |-> p] : p \in Prefixes(Resource(t))}

\* The selected rendition and the catalog are fixed before download_video runs.
\* Inputs that a run never reads are given one value: a single-track run reads
\* neither audio_stream nor the audio file, a run without audio rendition
\* touches no file, and only a dual-track run reads the codec map.
Init ==
    /\ pc = "main"
    /\ cur = "video"
    /\ includes_audio_track \in BOOLEAN
    /\ audio_stream \in (IF includes_audio_track THEN {TRUE} ELSE BOOLEAN)
    /\ video_extension \in (IF ~includes_audio_track /\ audio_stream
                            THEN Extensions ELSE {"mp4"})
    /\ \E fv \in FileInit("video"), fa \in FileInit("audio") :
          /\ includes_audio_track => ~fa.e
          /\ ~audio_stream => ~fv.e /\ ~fa.e
          /\ exists = [t \in Tracks |-> IF t = "video" THEN fv.e ELSE fa.e]
          /\ content = [t \in Tracks |-> IF t = "video" THEN fv.c ELSE fa.c]
    /\ attempt = 0
    /\ total_attempts = 0
    /\ wait_time = base_wait_time
    /\ elapsed = 0
    /\ body = <<>>
    /\ progress_bar = "undefined"
    /\ paths_set = FALSE
    /\ pending = "none"
    /\ final = "running"
    /\ outcome = [t \in Tracks |-> "none"]
    /\ status = "none"
    /\ gets = 0
    /\ sleeps = 0
    /\ only_transient = TRUE
    /\ long_span = FALSE
    /\ content0 = <<>>
    /\ range_offset = 0
    /\ content_range = "none"
    /\ invalid_answers = 0
    /\ continues = 0
    /\ combiner = "idle"
    /\ logged = "none"
    /\ remove_failed = {}
    /\ remove_tried = {}
    /\ streams = <<>>
    /\ available_streams = NotListed

\* ------------------------------------------------------------------ main
\* fetch_video_details returned no streams, or no rendition is usable
MainNoStreams ==
    /\ pc = "main"
    /\ pc' = "finally"
    /\ UNCHANGED <<cur, inputs, files, locals, body, progress_bar, paths_set,
                   ending, history, continues, combiner, logged>>

\* an exception before download_video is entered: except Exception, sys.exit(1)
MainException ==
    /\ pc = "main"
    /\ pending' = "exit1"
    /\ pc' = "finally"
    /\ UNCHANGED <<cur, inputs, files, locals, body, progress_bar, paths_set,
                   final, remove_failed, remove_tried, history, continues,
                   combiner, logged>>

MainProceed ==
    /\ pc = "main"
    /\ pc' = "download_video"
    /\ UNCHANGED <<cur, inputs, files, locals, body, progress_bar, paths_set,
                   ending, history, continues, combiner, logged>>

\* the places where the thread blocks on input, the network, sleep or the merge
Blocking == {"main", "download_video", "attempt", "stream", "sleep_conn",
             "sleep_exc", "ask", "combine"}

\* positions inside download_with_retries and handle_download_failure
RetryLoop == {"attempt", "stream", "sleep_conn", "sleep_exc", "ask"}

\* control has left download_with_retries for good, by its return to
\* download_video or by KeyboardInterrupt or SystemExit: its frame, and with it
\* the record of the invocation, is gone
Unwound ==
    /\ attempt' = 0
    /\ total_attempts' = 0
    /\ wait_time' = base_wait_time
    /\ elapsed' = 0
    /\ body' = <<>>
    /\ status' = "none"
    /\ gets' = 0
    /\ sleeps' = 0
    /\ only_transient' = TRUE
    /\ long_span' = FALSE
    /\ content0' = <<>>
    /\ range_offset' = 0
    /\ content_range' = "none"
    /\ invalid_answers' = 0

\* KeyboardInterrupt passes every except Exception; main answers sys.exit(0)
KeyboardInterrupt ==
    /\ pc \in Blocking
    /\ pending' = "exit0"
    /\ pc' = "finally"
    /\ IF pc \in RetryLoop
       THEN Unwound
       ELSE UNCHANGED <<locals, body, status, gets, sleeps, only_transient,
                        long_span, content0, range_offset, content_range,
                        invalid_answers>>
    /\ UNCHANGED <<cur, inputs, files, progress_bar, paths_set, outcome, final,
                   remove_failed, remove_tried, continues, combiner, logged>>

\* -------------------------------------------------- download_with_retries
\* entry of download_with_retries for track t, with the default parameters
BeginInvocation(t) ==
    /\ cur' = t
    /\ attempt' = 0
    /\ total_attempts' = 0
    /\ wait_time' = base_wait_time
    /\ elapsed' = 0
    /\ outcome' = [outcome EXCEPT ![t] = "none"]
    /\ status' = "none"
    /\ gets' = 0
    /\ sleeps' = 0
    /\ only_transient' = TRUE
    /\ long_span' = FALSE
    /\ content0' = content[t]
    /\ range_offset' = 0
    /\ content_range' = "none"
    /\ invalid_answers' = 0
    /\ pc' = "attempt"

\* the size the file had when the invocation began, read once before the loop
Offset_Stale == IF exists[cur] THEN Len(content0) ELSE 0

\* file_size sent in the Range header
Offset == IF exists[cur] THEN Len(content[cur]) ELSE 0

\* except (requests.ConnectionError, requests.Timeout), after an attempt of d
\* seconds; the response, if any, is dropped, and the clock is read again only
\* when a sleep follows
HandleConnectionError(d) ==
    /\ status' = "none"
    /\ long_span' = (long_span \/ d > reset_interval)
    /\ UNCHANGED <<wait_time, only_transient>>
    /\ IF progress_bar = "undefined"
       THEN \* progress_bar.close() raises NameError, logged by download_video
            /\ outcome' = [outcome EXCEPT ![cur] = "Raised"]
            /\ pc' = "finally"
            /\ elapsed' = 0
            /\ UNCHANGED <<progress_bar, attempt, total_attempts>>
       ELSE /\ progress_bar' = "closed"
            /\ attempt' = attempt + 1
            /\ total_attempts' = total_attempts + 1
            /\ IF total_attempts + 1 < max_attempts
               THEN /\ pc' = "sleep_conn"
                    /\ elapsed' = d
                    /\ UNCHANGED outcome
               ELSE /\ pc' = "ask"
                    /\ elapsed' = 0
                    /\ outcome' = [outcome EXCEPT ![cur] = "ExhaustedRetries"]

\* except Exception, after an attempt of d seconds
HandleException(d) ==
    /\ status' = "none"
    /\ long_span' = (long_span \/ d > reset_interval)
    /\ only_transient' = FALSE
    /\ UNCHANGED <<wait_time, attempt>>
    /\ IF progress_bar = "undefined"
       THEN /\ outcome' = [outcome EXCEPT ![cur] = "Raised"]
            /\ pc' = "finally"
            /\ elapsed' = 0
            /\ UNCHANGED <<progress_bar, total_attempts>>
       ELSE /\ progress_bar' = "closed"
            /\ total_attempts' = total_attempts + 1
            /\ IF total_attempts + 1 < max_attempts
               THEN /\ pc' = "sleep_exc"
                    /\ elapsed' = d
                    /\ UNCHANGED outcome
               ELSE /\ pc' = "ask"
                    /\ elapsed' = 0
                    /\ outcome' = [outcome EXCEPT ![cur] = "ExhaustedRetries"]

\* requests.get raises ConnectionError or Timeout
GetConnectionError ==
    /\ pc = "attempt"
    /\ range_offset' = Offset
    /\ content_range' = "none"
    /\ gets' = gets + 1
    /\ \E d \in Spans : HandleConnectionError(d)
    /\ UNCHANGED <<cur, inputs, files, body, paths_set, ending, sleeps,
                   content0, invalid_answers, continues, combiner, logged>>

\* requests.get raises any other exception
GetUnexpected ==
    /\ pc = "attempt"
    /\ range_offset' = Offset
    /\ content_range' = "none"
    /\ gets' = gets + 1
    /\ \E d \in Spans : HandleException(d)
    /\ UNCHANGED <<cur, inputs, files, body, paths_set, ending, sleeps,
                   content0, invalid_answers, continues, combiner, logged>>

\* 416 handled as a failure of the attempt instead of ending the invocation
Get416_Retried ==
    /\ pc = "attempt"
    /\ range_offset' = Offset
    /\ content_range' = "none"
    /\ Offset >= ResourceSize
    /\ gets' = gets + 1
    /\ status' = "416"
    /\ only_transient' = FALSE
    /\ total_attempts' = total_attempts + 1
    /\ pc' = IF total_attempts + 1 < max_attempts THEN "sleep_exc" ELSE "ask"
    /\ outcome' = IF total_attempts + 1 < max_attempts
                  THEN outcome
                  ELSE [outcome EXCEPT ![cur] = "ExhaustedRetries"]
    /\ UNCHANGED <<cur, inputs, files, attempt, wait_time, elapsed, body,
                   progress_bar, paths_set, ending, sleeps, long_span, content0,
                   invalid_answers, continues, combiner, logged>>

\* status 416: nothing is left to fetch after the offset
Get416 ==
    /\ pc = "attempt"
    /\ range_offset' = Offset
    /\ content_range' = "none"
    /\ Offset >= ResourceSize
    /\ gets' = gets + 1
    /\ status' = "416"
    /\ outcome' = [outcome EXCEPT ![cur] = "AlreadyComplete"]
    /\ only_transient' = FALSE
    /\ elapsed' = 0
    /\ pc' = "returned"
    /\ UNCHANGED <<cur, inputs, files, attempt, total_attempts, wait_time, body,
                   progress_bar, paths_set, ending, sleeps, long_span, content0,
                   invalid_answers, continues, combiner, logged>>

\* a rejected request handled as a failure of the attempt and retried
GetRejected_Retried ==
    /\ pc = "attempt"
    /\ range_offset' = Offset
    /\ content_range' = "none"
    /\ \E s \in OtherStatuses : status' = s
    /\ gets' = gets + 1
    /\ only_transient' = FALSE
    /\ total_attempts' = total_attempts + 1
    /\ pc' = IF total_attempts + 1 < max_attempts THEN "sleep_exc" ELSE "ask"
    /\ outcome' = IF total_attempts + 1 < max_attempts
                  THEN outcome
                  ELSE [outcome EXCEPT ![cur] = "ExhaustedRetries"]
    /\ UNCHANGED <<cur, inputs, files, attempt, wait_time, elapsed, body,
                   progress_bar, paths_set, ending, sleeps, long_span, content0,
                   invalid_answers, continues, combiner, logged>>

\* a status not in [206, 200] and not 416
GetRejected ==
    /\ pc = "attempt"
    /\ range_offset' = Offset
    /\ content_range' = "none"
    /\ \E s \in OtherStatuses : status' = s
    /\ gets' = gets + 1
    /\ outcome' = [outcome EXCEPT ![cur] = "ServerRejectsResume"]
    /\ only_transient' = FALSE
    /\ elapsed' = 0
    /\ pc' = "returned"
    /\ UNCHANGED <<cur, inputs, files, attempt, total_attempts, wait_time, body,
                   progress_bar, paths_set, ending, sleeps, long_span, content0,
                   invalid_answers, continues, combiner, logged>>

\* statuses with which the server sends a body: 206 needs a satisfiable range
BodyStatuses == {"200"} \cup (IF Offset < ResourceSize THEN {"206"} ELSE {})

\* the body the server sends: the whole resource with 200, the range with 206
ResponseBody(s) ==
    IF s = "200" THEN Resource(cur) ELSE SubSeq(Resource(cur), Offset + 1, ResourceSize)

\* content-range headers without a total: none at all, so that the default
\* f'bytes {file_size}-0' is used, or one with no integer after a '/'
BadContentRanges == {"absent", "malformed"}

\* int(headers.get('content-range', f'bytes {file_size}-0').split('/')[1]) raises:
\* the default has no '/', a malformed header has no total
GetBadHeader ==
    /\ pc = "attempt"
    /\ range_offset' = Offset
    /\ content_range' \in BadContentRanges
    /\ BodyStatuses # {}
    /\ gets' = gets + 1
    /\ \E d \in Spans : HandleException(d)
    /\ UNCHANGED <<cur, inputs, files, body, paths_set, ending, sleeps,
                   content0, invalid_answers, continues, combiner, logged>>

\* the file is opened 'wb': what it held is dropped
GetStream_Truncating ==
    /\ pc = "attempt"
    /\ range_offset' = Offset
    /\ content_range' = "total"
    /\ \E s \in BodyStatuses :
          /\ s = "200" => Offset + ResourceSize <= MaxFileLen
          /\ status' = s
          /\ body' = ResponseBody(s)
    /\ gets' = gets + 1
    /\ progress_bar' = "open"
    /\ exists' = [exists EXCEPT ![cur] = TRUE]
    /\ content' = [content EXCEPT ![cur] = <<>>]
    /\ elapsed' = 0
    /\ pc' = "stream"
    /\ UNCHANGED <<cur, inputs, attempt, total_attempts, wait_time, paths_set,
                   ending, outcome, sleeps, only_transient, long_span, content0,
                   invalid_answers, continues, combiner, logged>>

\* 200 or 206 with a content-range total: tqdm is created, the file is opened 'ab'
GetStream ==
    /\ pc = "attempt"
    /\ range_offset' = Offset
    /\ content_range' = "total"
    /\ \E s \in BodyStatuses :
          /\ s = "200" => Offset + ResourceSize <= MaxFileLen
          /\ status' = s
          /\ body' = ResponseBody(s)
    /\ gets' = gets + 1
    /\ progress_bar' = "open"
    /\ exists' = [exists EXCEPT ![cur] = TRUE]
    /\ elapsed' = 0
    /\ pc' = "stream"
    /\ UNCHANGED <<cur, inputs, content, attempt, total_attempts, wait_time,
                   paths_set, ending, outcome, sleeps, only_transient,
                   long_span, content0, invalid_answers, continues, combiner,
                   logged>>

\* f.write(data) for the next chunk of iter_content
StreamChunk ==
    /\ pc = "stream"
    /\ body # <<>>
    /\ content' = [content EXCEPT ![cur] = Append(@, Head(body))]
    /\ body' = Tail(body)
    /\ UNCHANGED <<pc, cur, inputs, exists, locals, progress_bar, paths_set,
                   ending, history, continues, combiner, logged>>

\* iter_content is exhausted: progress_bar.close(), return
StreamDone ==
    /\ pc = "stream"
    /\ body = <<>>
    /\ progress_bar' = "closed"
    /\ outcome' = [outcome EXCEPT ![cur] = "Completed"]
    /\ only_transient' = FALSE
    /\ pc' = "returned"
    /\ UNCHANGED <<cur, inputs, files, locals, body, paths_set, ending, status,
                   gets, sleeps, long_span, content0, range_offset,
                   content_range, invalid_answers, continues, combiner, logged>>

\* iter_content raises ConnectionError (a read timeout); written bytes stay
StreamConnectionError ==
    /\ pc = "stream"
    /\ range_offset' = 0
    /\ content_range' = "none"
    /\ body' = <<>>
    /\ \E d \in Spans : HandleConnectionError(d)
    /\ UNCHANGED <<cur, inputs, files, paths_set, ending, gets, sleeps,
                   content0, invalid_answers, continues, combiner, logged>>

\* iter_content or f.write raises another exception (ChunkedEncodingError, OSError)
StreamUnexpected ==
    /\ pc = "stream"
    /\ range_offset' = 0
    /\ content_range' = "none"
    /\ body' = <<>>
    /\ \E d \in Spans : HandleException(d)
    /\ UNCHANGED <<cur, inputs, files, paths_set, ending, gets, sleeps,
                   content0, invalid_answers, continues, combiner, logged>>

\* the reset after a long attempt gives the whole budget back
AfterSleepConn_ResetsBudget ==
    /\ pc = "sleep_conn"
    /\ range_offset' = 0
    /\ content_range' = "none"
    /\ sleeps' = sleeps + 1
    /\ elapsed' = 0
    /\ IF elapsed + wait_time > reset_interval
       THEN /\ attempt' = 0
            /\ total_attempts' = 0
            /\ wait_time' = base_wait_time
       ELSE UNCHANGED <<attempt, total_attempts, wait_time>>
    /\ pc' = "attempt"
    /\ UNCHANGED <<cur, inputs, files, body, progress_bar, paths_set, ending,
                   outcome, status, gets, only_transient, long_span, content0,
                   invalid_answers, continues, combiner, logged>>

\* time.sleep(wait_time) of the ConnectionError handler, then the reset check on
\* time.time() - start_time, then the loop test and start_time = time.time()
AfterSleepConn ==
    /\ pc = "sleep_conn"
    /\ range_offset' = 0
    /\ content_range' = "none"
    /\ sleeps' = sleeps + 1
    /\ elapsed' = 0
    /\ IF elapsed + wait_time > reset_interval
       THEN /\ attempt' = 0
            /\ wait_time' = base_wait_time
       ELSE UNCHANGED <<attempt, wait_time>>
    /\ pc' = "attempt"
    /\ UNCHANGED <<cur, inputs, files, total_attempts, body, progress_bar,
                   paths_set, ending, outcome, status, gets, only_transient,
                   long_span, content0, invalid_answers, continues, combiner,
                   logged>>

\* time.sleep(wait_time) of the Exception handler, then the loop test and
\* start_time = time.time()
AfterSleepExc ==
    /\ pc = "sleep_exc"
    /\ range_offset' = 0
    /\ content_range' = "none"
    /\ sleeps' = sleeps + 1
    /\ elapsed' = 0
    /\ pc' = "attempt"
    /\ UNCHANGED <<cur, inputs, files, attempt, total_attempts, wait_time, body,
                   progress_bar, paths_set, ending, outcome, status, gets,
                   only_transient, long_span, content0, invalid_answers,
                   continues, combiner, logged>>

\* ------------------------------------------------ handle_download_failure
\* 's' lets the exhausted loop go on with the counters it has
AnswerContinue_Resumes ==
    /\ pc = "ask"
    /\ continues < MaxContinues
    /\ continues' = continues + 1
    /\ invalid_answers' = 0
    /\ outcome' = [outcome EXCEPT ![cur] = "none"]
    /\ pc' = "attempt"
    /\ UNCHANGED <<cur, inputs, files, locals, body, progress_bar, paths_set,
                   ending, status, gets, sleeps, only_transient, long_span,
                   content0, range_offset, content_range, combiner, logged>>

\* choice == 's': download_with_retries(url, output_path, filename)
AnswerContinue ==
    /\ pc = "ask"
    /\ continues < MaxContinues
    /\ continues' = continues + 1
    /\ BeginInvocation(cur)
    /\ UNCHANGED <<inputs, files, body, progress_bar, paths_set, ending,
                   combiner, logged>>

\* any other choice: "Opcao invalida" is printed and the prompt is shown again
AnswerInvalid ==
    /\ pc = "ask"
    /\ invalid_answers < MaxInvalidAnswers
    /\ invalid_answers' = invalid_answers + 1
    /\ UNCHANGED <<pc, cur, inputs, files, locals, body, progress_bar,
                   paths_set, ending, outcome, status, gets, sleeps,
                   only_transient, long_span, content0, range_offset,
                   content_range, continues, combiner, logged>>

\* 'n' ends the prompt like 's' does, by a return to the caller
AnswerAbort_Returns ==
    /\ pc = "ask"
    /\ pc' = "returned"
    /\ invalid_answers' = 0
    /\ logged' = "Cancelled"
    /\ UNCHANGED <<cur, inputs, files, locals, body, progress_bar, paths_set,
                   ending, outcome, status, gets, sleeps, only_transient,
                   long_span, content0, range_offset, content_range, continues,
                   combiner>>

\* choice == 'n': sys.exit(0)
AnswerAbort ==
    /\ pc = "ask"
    /\ pending' = "exit0"
    /\ pc' = "finally"
    /\ logged' = "Cancelled"
    /\ Unwound
    /\ UNCHANGED <<cur, inputs, files, progress_bar, paths_set, outcome, final,
                   remove_failed, remove_tried, continues, combiner>>

\* -------------------------------------------------------- download_video
\* confirm_download_choice returns None: the output exists and the user said 'n'
DeclineOverwrite ==
    /\ pc = "download_video"
    /\ pc' = "finally"
    /\ UNCHANGED <<cur, inputs, files, locals, body, progress_bar, paths_set,
                   ending, history, continues, combiner, logged>>

\* selected_stream.includes_audio_track: one transfer to the final file name
StartSingle ==
    /\ pc = "download_video"
    /\ includes_audio_track
    /\ BeginInvocation("video")
    /\ UNCHANGED <<inputs, files, body, progress_bar, paths_set, ending,
                   continues, combiner, logged>>

\* no audio rendition: the video track is downloaded on its own, unmerged
NoAudioStream_VideoOnly ==
    /\ pc = "download_video"
    /\ ~includes_audio_track
    /\ ~audio_stream
    /\ paths_set' = TRUE
    /\ BeginInvocation("video")
    /\ UNCHANGED <<inputs, files, body, progress_bar, ending, continues,
                   combiner, logged>>

\* not audio_stream: warning, return
NoAudioStream ==
    /\ pc = "download_video"
    /\ ~includes_audio_track
    /\ ~audio_stream
    /\ logged' = "NoCompatibleAudio"
    /\ pc' = "finally"
    /\ UNCHANGED <<cur, inputs, files, locals, body, progress_bar, paths_set,
                   ending, history, continues, combiner>>

\* video_path and audio_path are set, then the video track is downloaded
StartVideo ==
    /\ pc = "download_video"
    /\ ~includes_audio_track
    /\ audio_stream
    /\ paths_set' = TRUE
    /\ BeginInvocation("video")
    /\ UNCHANGED <<inputs, files, body, progress_bar, ending, continues,
                   combiner, logged>>

\* download_with_progress of the single transfer returned
ReturnSingle ==
    /\ pc = "returned"
    /\ includes_audio_track
    /\ pc' = "finally"
    /\ Unwound
    /\ UNCHANGED <<cur, inputs, files, progress_bar, paths_set, ending, outcome,
                   continues, combiner, logged>>

\* the audio track started without waiting for the video transfer to return
StartAudio_Early ==
    /\ pc \in {"returned", "sleep_conn", "sleep_exc"}
    /\ ~includes_audio_track
    /\ cur = "video"
    /\ BeginInvocation("audio")
    /\ UNCHANGED <<inputs, files, body, progress_bar, paths_set, ending,
                   continues, combiner, logged>>

\* download_with_progress of the video track returned: download the audio track
StartAudio ==
    /\ pc = "returned"
    /\ ~includes_audio_track
    /\ cur = "video"
    /\ BeginInvocation("audio")
    /\ UNCHANGED <<inputs, files, body, progress_bar, paths_set, ending,
                   continues, combiner, logged>>

\* the merge is started whatever the container extension
CheckCodec_Unchecked ==
    /\ pc = "returned"
    /\ ~includes_audio_track
    /\ cur = "audio"
    /\ pc' = "combine"
    /\ combiner' = "running"
    /\ Unwound
    /\ UNCHANGED <<cur, inputs, files, progress_bar, paths_set, ending, outcome,
                   continues, logged>>

\* download_with_progress of the audio track returned: codec_map, then the merge
CheckCodec ==
    /\ pc = "returned"
    /\ ~includes_audio_track
    /\ cur = "audio"
    /\ IF video_extension \in codec_map
       THEN /\ pc' = "combine"
            /\ combiner' = "running"
            /\ UNCHANGED logged
       ELSE /\ pc' = "finally"
            /\ logged' = "UnsupportedContainer"
            /\ UNCHANGED combiner
    /\ Unwound
    /\ UNCHANGED <<cur, inputs, files, progress_bar, paths_set, ending, outcome,
                   continues>>

\* write_videofile returns
CombineDone ==
    /\ pc = "combine"
    /\ combiner' = "done"
    /\ pc' = "finally"
    /\ UNCHANGED <<cur, inputs, files, locals, body, progress_bar, paths_set,
                   ending, history, continues, logged>>

\* the clips or write_videofile raise: except Exception logs it
CombineFails ==
    /\ pc = "combine"
    /\ combiner' = "failed"
    /\ pc' = "finally"
    /\ UNCHANGED <<cur, inputs, files, locals, body, progress_bar, paths_set,
                   ending, history, continues, logged>>

\* -------------------------------------------------------- main's finally
\* cleanup that runs only when no exception is in flight
Removable_OnSuccess(t) == paths_set /\ exists[t] /\ pending = "none"

\* the test guarding os.remove of track t's temporary file
Removable(t) == paths_set /\ exists[t]

\* where control goes after the code for track t's temporary file
AfterRemove(t) == IF t = "video" THEN "finally_audio" ELSE "terminated"

\* how the process ends when finally raises nothing
FinalStatus == IF pending = "none" THEN "returned" ELSE pending

CleanupAt(t) == pc = (IF t = "video" THEN "finally" ELSE "finally_audio")

\* os.remove(path) succeeds
Remove(t) ==
    /\ CleanupAt(t)
    /\ Removable(t)
    /\ exists' = [exists EXCEPT ![t] = FALSE]
    /\ UNCHANGED content
    /\ remove_tried' = remove_tried \cup {t}
    /\ pc' = AfterRemove(t)
    /\ final' = IF t = "audio" THEN FinalStatus ELSE final
    /\ UNCHANGED <<cur, inputs, locals, body, progress_bar, paths_set, pending,
                   remove_failed, history, continues, combiner, logged>>

\* os.remove(path) raises OSError: except OSError raises a new OSError
RemoveFails(t) ==
    /\ CleanupAt(t)
    /\ Removable(t)
    /\ remove_tried' = remove_tried \cup {t}
    /\ remove_failed' = remove_failed \cup {t}
    /\ pc' = "terminated"
    /\ final' = "OSError"
    /\ UNCHANGED <<cur, inputs, files, locals, body, progress_bar, paths_set,
                   pending, history, continues, combiner, logged>>

\* the path is not in globals() or the file does not exist
SkipRemove(t) ==
    /\ CleanupAt(t)
    /\ ~Removable(t)
    /\ pc' = AfterRemove(t)
    /\ final' = IF t = "audio" THEN FinalStatus ELSE final
    /\ UNCHANGED <<cur, inputs, files, locals, body, progress_bar, paths_set,
                   pending, remove_failed, remove_tried, history, continues,
                   combiner, logged>>

RemoveVideo == Remove("video")
RemoveVideoFails == RemoveFails("video")
SkipRemoveVideo == SkipRemove("video")
RemoveAudio == Remove("audio")
RemoveAudioFails == RemoveFails("audio")
SkipRemoveAudio == SkipRemove("audio")

Next ==
    \/ MainNoStreams \/ MainException \/ MainProceed \/ KeyboardInterrupt
    \/ DeclineOverwrite \/ StartSingle \/ NoAudioStream \/ StartVideo
    \/ GetConnectionError \/ GetUnexpected \/ Get416 \/ GetRejected
    \/ GetBadHeader \/ GetStream
    \/ StreamChunk \/ StreamDone \/ StreamConnectionError \/ StreamUnexpected
    \/ AfterSleepConn \/ AfterSleepExc
    \/ AnswerContinue \/ AnswerInvalid \/ AnswerAbort
    \/ ReturnSingle \/ StartAudio \/ CheckCodec \/ CombineDone \/ CombineFails
    \/ RemoveVideo \/ RemoveVideoFails \/ SkipRemoveVideo
    \/ RemoveAudio \/ RemoveAudioFails \/ SkipRemoveAudio

Spec == Init /\ [][Next]_vars

TypeOK ==
    /\ pc \in Blocking \cup {"returned", "finally", "finally_audio", "terminated"}
    /\ cur \in Tracks
    /\ total_attempts \in 0..max_attempts
    /\ attempt \in 0..max_attempts
    /\ \A t \in Tracks : Len(content[t]) <= MaxFileLen + ResourceSize
    /\ progress_bar \in {"undefined", "open", "closed"}
    /\ final \in {"running", "returned", "exit0", "exit1", "OSError"}
    /\ logged \in {"none", "NoCompatibleAudio", "UnsupportedContainer",
                  "Cancelled"}
    /\ content_range \in {"none", "total"} \cup BadContentRanges
    /\ range_offset \in 0..MaxFileLen
    /\ invalid_answers \in 0..MaxInvalidAnswers

\* ------------------------------------------------- list_available_streams
\* A string is a sequence of one-character strings.
Digits == {"0", "1", "2", "3", "4", "5", "6", "7", "8", "9"}

DigitValue == [c \in Digits |->
    CASE c = "0" -> 0 [] c = "1" -> 1 [] c = "2" -> 2 [] c = "3" -> 3
      [] c = "4" -> 4 [] c = "5" -> 5 [] c = "6" -> 6 [] c = "7" -> 7
      [] c = "8" -> 8 [] c = "9" -> 9]

\* stream.resolution is None, stream.filesize is None
NoneLabel == <<"None">>
NoneSize == -1

\* resolution labels a catalog may carry; the last one has no numeral
Labels == {<<"7", "2", "0", "p">>, <<"1", "0", "8", "0", "p">>, <<"h", "d">>}

\* file sizes a catalog may carry
Sizes == {1, 2}

Streams == [resolution : Labels \cup {NoneLabel}, filesize : Sizes \cup {NoneSize}]

\* s.split('p')[0]
RECURSIVE BeforeP(_)
BeforeP(s) ==
    IF s = <<>> \/ Head(s) = "p" THEN <<>> ELSE <<Head(s)>> \o BeforeP(Tail(s))

\* s.strip()
RECURSIVE Strip(_)
Strip(s) ==
    IF s = <<>> THEN s
    ELSE IF Head(s) = " " THEN Strip(Tail(s))
    ELSE IF s[Len(s)] = " " THEN Strip(SubSeq(s, 1, Len(s) - 1))
    ELSE s

\* int(s) raises ValueError unless s is a numeral
IsNumeral(s) == s # <<>> /\ \A i \in 1..Len(s) : s[i] \in Digits

\* int(s) for a numeral s
RECURSIVE IntOf(_)
IntOf(s) ==
    IF s = <<>> THEN 0
    ELSE 10 * IntOf(SubSeq(s, 1, Len(s) - 1)) + DigitValue[s[Len(s)]]

\* f"{resolution} - {format_filesize(file_size)}... - {subtype}...": the label,
\* then " - ", then text that the sort key never reaches or that fails int()
stream_info(stream) == stream.resolution \o <<" ", "-", " ", "m", "p", "4">>

\* the argument of int() in the sort key: x[0].split('p')[0].strip()
KeyText(x) == Strip(BeforeP(x[1]))

\* list.sort(key=...) is stable: s is a sequence of <<key, item>> pairs
RECURSIVE InsertByKey(_, _)
InsertByKey(x, s) ==
    IF s = <<>> THEN <<x>>
    ELSE IF Head(s)[1] <= x[1] THEN <<Head(s)>> \o InsertByKey(x, Tail(s))
    ELSE <<x>> \o s

RECURSIVE SortByKey(_)
SortByKey(s) ==
    IF s = <<>> THEN <<>>
    ELSE InsertByKey(s[Len(s)], SortByKey(SubSeq(s, 1, Len(s) - 1)))

\* the loop of lines 46-58: the retained streams, each with its stream_info
Retained(ss) ==
    LET kept == SelectSeq(ss, LAMBDA stream :
                    stream.resolution # NoneLabel /\ stream.filesize # NoneSize)
    IN  [i \in 1..Len(kept) |-> <<stream_info(kept[i]), kept[i]>>]

\* The fallback sorts by x[1], the Stream object; pytube's Stream defines no
\* ordering, so the first comparison raises TypeError, inside the except
\* clause, and the exception leaves the function. A list of one item is
\* sorted without any comparison.
list_available_streams(ss) ==
    LET available == Retained(ss)
        keyed == [i \in 1..Len(available) |->
                     <<IntOf(KeyText(available[i])), available[i]>>]
        sorted == SortByKey(keyed)
    IN  IF \A i \in 1..Len(available) : IsNumeral(KeyText(available[i]))
        THEN [raised |-> "none", list |-> [i \in 1..Len(sorted) |-> sorted[i][2]]]
        ELSE IF Len(available) <= 1
             THEN [raised |-> "none", list |-> available]
             ELSE [raised |-> "TypeError", list |-> <<>>]

Catalogs == UNION {[1..n -> Streams] : n \in 0..MaxStreams}

\* main has fetched the catalog and is about to call list_available_streams
CatalogInit ==
    /\ pc = "list_available_streams"
    /\ streams \in Catalogs
    /\ available_streams = NotListed
    /\ cur = "video"
    /\ includes_audio_track = TRUE
    /\ audio_stream = TRUE
    /\ video_extension = "mp4"
    /\ exists = [t \in Tracks |-> FALSE]
    /\ content = [t \in Tracks |-> <<>>]
    /\ attempt = 0
    /\ total_attempts = 0
    /\ wait_time = base_wait_time
    /\ elapsed = 0
    /\ body = <<>>
    /\ progress_bar = "undefined"
    /\ paths_set = FALSE
    /\ pending = "none"
    /\ final = "running"
    /\ outcome = [t \in Tracks |-> "none"]
    /\ status = "none"
    /\ gets = 0
    /\ sleeps = 0
    /\ only_transient = TRUE
    /\ long_span = FALSE
    /\ content0 = <<>>
    /\ range_offset = 0
    /\ content_range = "none"
    /\ invalid_answers = 0
    /\ continues = 0
    /\ combiner = "idle"
    /\ logged = "none"
    /\ remove_failed = {}
    /\ remove_tried = {}

\* available_streams = list_available_streams(streams)
ListAvailableStreams ==
    /\ pc = "list_available_streams"
    /\ available_streams' = list_available_streams(streams)
    /\ pc' = "listed"
    /\ UNCHANGED <<cur, includes_audio_track, audio_stream, video_extension,
                   streams, files, locals, body, progress_bar, paths_set,
                   ending, outcome, status, gets, sleeps, only_transient,
                   long_span, content0, range_offset, content_range,
                   invalid_answers, continues, combiner, logged>>

CatalogNext == ListAvailableStreams

CatalogSpec == CatalogInit /\ [][CatalogNext]_vars

\* ================================================================ claims
Successful == {"Completed", "AlreadyComplete"}
Terminal == Successful \cup {"ServerRejectsResume", "ExhaustedRetries"}

\* C1: an invocation in which every attempt failed transiently, each within
\* reset_interval, has made exactly max_attempts requests and has ended in
\* ExhaustedRetries.
C1_TransientFailuresExhaustBudget ==
    (outcome[cur] # "none" /\ gets >= 1 /\ only_transient /\ ~long_span)
        => (outcome[cur] = "ExhaustedRetries" /\ gets = max_attempts)

\* C2: when a retryable failure is followed by a retry and the time since
\* start_time exceeds reset_interval, the counter that bounds the loop is zero
\* when the next attempt starts.
C2_LongFailureResetsBudget ==
    [][(pc \in {"sleep_conn", "sleep_exc"} /\ pc' = "attempt"
        /\ elapsed + wait_time > reset_interval) => total_attempts' = 0]_vars

\* C3: a status other than 200, 206 and 416 ends the invocation at once with
\* ServerRejectsResume: the step that receives it neither sleeps nor writes and
\* returns, and from then on the transfer makes no further attempt and the
\* file's bytes stay as they are.
C3_RejectedEndsAtOnce ==
    /\ [](status \in OtherStatuses
            => outcome[cur] = "ServerRejectsResume" /\ pc = "returned")
    /\ [][(status' \in OtherStatuses /\ pc = "attempt") =>
            /\ gets' = gets + 1
            /\ sleeps' = sleeps
            /\ content' = content
            /\ exists' = exists]_vars
    /\ [][\A t \in Tracks : outcome[t] = "ServerRejectsResume" =>
            /\ outcome'[t] = outcome[t]
            /\ content'[t] = content[t]]_vars

C3_Witness ==
    /\ pc = "returned"
    /\ status \in OtherStatuses
    /\ outcome[cur] = "ServerRejectsResume"
    /\ gets >= 2
    /\ sleeps >= 1

\* C4: in a dual-track download whose video transfer ended with
\* ServerRejectsResume, the audio transfer is not started and the combiner is
\* not invoked.
C4_RejectedVideoStopsDualTrack ==
    (~includes_audio_track /\ outcome["video"] = "ServerRejectsResume")
        => (cur = "video" /\ combiner = "idle")

\* C5: the combiner is invoked only when both transfers ended Completed or
\* AlreadyComplete.
C5_CombinerNeedsBothSuccessful ==
    combiner # "idle" => \A t \in Tracks : outcome[t] \in Successful

\* C6: the audio transfer starts only after the video transfer reached a
\* terminal outcome, the combiner is invoked only after the audio transfer
\* reached one, and once the audio transfer has started the video transfer
\* takes no further step.
C6_TransfersAreSequential ==
    /\ [](cur = "audio" => outcome["video"] \in Terminal /\ paths_set)
    /\ [](combiner # "idle" =>
            cur = "audio" /\ outcome["audio"] \in Terminal /\ pc \notin RetryLoop)
    /\ [][cur = "audio" =>
            /\ cur' = "audio"
            /\ outcome'["video"] = outcome["video"]
            /\ content'["video"] = content["video"]]_vars

C6_Witness ==
    /\ combiner = "done"
    /\ continues >= 1
    /\ \A t \in Tracks : outcome[t] = "Completed"

\* C7: when a dual-track run has terminated and no removal failed, neither
\* temporary file exists.
C7_TempFilesRemoved ==
    (pc = "terminated" /\ paths_set /\ remove_failed = {})
        => (~exists["video"] /\ ~exists["audio"])

C7_Witness ==
    /\ pc = "terminated"
    /\ paths_set
    /\ remove_tried = Tracks
    /\ remove_failed = {}
    /\ final = "exit0"

\* C8: when a removal failed after an error or abort, the process still ends
\* with the status of that error or abort, and the removal of the other
\* temporary file was attempted.
C8_CleanupFailureNeverMasks ==
    (pc = "terminated" /\ remove_failed # {} /\ pending # "none")
        => /\ final = pending
           /\ \A t \in Tracks : exists[t] => t \in remove_tried

\* C9: the request answered 416 is the last of its invocation: the invocation
\* ends AlreadyComplete at once, the step that receives the answer neither
\* sleeps nor writes, and from then on the transfer makes no further request
\* and the file's bytes stay as they are; when 416 answers the first request,
\* the invocation made that one request only and the file is as it was.
C9_AlreadyCompleteIsIdempotent ==
    /\ [](status = "416" => outcome[cur] = "AlreadyComplete" /\ pc = "returned")
    /\ [](status = "416" /\ total_attempts = 0
            => gets = 1 /\ sleeps = 0 /\ content[cur] = content0)
    /\ [][(status' = "416" /\ pc = "attempt") =>
            /\ gets' = gets + 1
            /\ sleeps' = sleeps
            /\ content' = content
            /\ exists' = exists]_vars
    /\ [][\A t \in Tracks : outcome[t] = "AlreadyComplete" =>
            /\ outcome'[t] = outcome[t]
            /\ content'[t] = content[t]]_vars

C9_Witness ==
    /\ pc = "returned"
    /\ outcome[cur] = "AlreadyComplete"
    /\ gets = 1
    /\ content0 = Resource(cur)
    /\ content[cur] = Resource(cur)

\* C10: a transfer that started from a prefix of the resource and ended
\* Completed left the resource, byte for byte, in the destination file.
C10_ResumeYieldsResource ==
    \A t \in Tracks : outcome[t] = "Completed" => content[t] = Resource(t)

\* C11: when the selected rendition has no audio track and the catalog has no
\* audio-only rendition, download_video gives up with the NoCompatibleAudio
\* warning and goes straight to the end of the run: no transfer is ever
\* entered, so no request is made, the temporary paths are never set, no file
\* comes to exist, and the combiner stays idle.
C11_NoAudioNoDownload ==
    /\ [](logged = "NoCompatibleAudio" =>
            /\ ~includes_audio_track /\ ~audio_stream
            /\ pc \in {"finally", "finally_audio", "terminated"})
    /\ []((~includes_audio_track /\ ~audio_stream) =>
            /\ pc \notin RetryLoop \cup {"returned", "combine"}
            /\ gets = 0
            /\ ~paths_set
            /\ combiner = "idle"
            /\ \A t \in Tracks : ~exists[t] /\ outcome[t] = "none")

C11_Witness ==
    /\ pc = "terminated"
    /\ logged = "NoCompatibleAudio"
    /\ final = "returned"

Cleanup == {"finally", "finally_audio", "terminated"}

C13_TransientErrorsNeverEscape ==
    (gets >= 1 /\ only_transient)
        => (pc \in RetryLoop /\ outcome[cur] \in {"none", "ExhaustedRetries"})

\* a transfer of a dual-track run ended ExhaustedRetries and the user answered
\* 'n' to the prompt that followed
Abandoned == paths_set /\ logged = "Cancelled"

\* steps left before the process has ended, once main's finally is entered
StepsLeft(p) == CASE p = "finally" -> 2 [] p = "finally_audio" -> 1 [] OTHER -> 0

Count(x, s) == Cardinality({i \in 1..Len(s) : s[i] = x})

\* C16: list_available_streams returns a list, which holds the retained
\* renditions, each as often as the catalog does; when the numeral of every
\* retained label parses the list is in ascending order of that number, and
\* otherwise it is in ascending order of file size.
C16_CatalogSorted ==
    pc = "listed" =>
        LET kept == Retained(streams)
            out == available_streams.list
        IN  /\ available_streams.raised = "none"
            /\ Len(out) = Len(kept)
            /\ \A i \in 1..Len(kept) : Count(kept[i], out) = Count(kept[i], kept)
            /\ IF \A i \in 1..Len(kept) : IsNumeral(KeyText(kept[i]))
               THEN \A i, j \in 1..Len(out) :
                       i < j => IntOf(KeyText(out[i])) <= IntOf(KeyText(out[j]))
               ELSE \A i, j \in 1..Len(out) :
                       i < j => out[i][2].filesize <= out[j][2].filesize

\* C17: every request carries as Range offset the length the destination file
\* has when the attempt starts, 0 when the file does not exist; so a 206 answer
\* brings exactly the bytes the file still lacks, and no byte already on disk
\* is fetched by range again.
C17_RangeOffsetIsFileLength ==
    /\ [][gets' = gets + 1 =>
            range_offset' = (IF exists[cur] THEN Len(content[cur]) ELSE 0)]_vars
    /\ [][(gets' = gets + 1 /\ status' = "206") =>
            /\ body' = SubSeq(Resource(cur), range_offset' + 1, ResourceSize)
            /\ Len(content'[cur]) = range_offset']_vars
    /\ []((pc = "stream" /\ status = "206")
            => Len(content[cur]) + Len(body) = ResourceSize)

C17_Witness ==
    /\ pc = "stream"
    /\ status = "206"
    /\ gets >= 2
    /\ sleeps >= 1
    /\ range_offset > Len(content0)
    /\ range_offset = Len(content[cur])

IsPrefix(a, b) == Len(a) <= Len(b) /\ SubSeq(b, 1, Len(a)) = a

\* C18: while control is in download_with_retries or at the prompt of
\* handle_download_failure, whatever the step (a response, a chunk, a failure,
\* a sleep, a restart after 's'), no file stops existing and what each file
\* held before the step is a prefix of what it holds after it.
C18_DestinationIsAppendOnly ==
    [][(pc \in RetryLoop) =>
        (\A t \in Tracks : (exists[t] => exists'[t])
                             /\ IsPrefix(content[t], content'[t]))]_vars

C18_Witness ==
    /\ pc = "stream"
    /\ continues >= 1
    /\ sleeps >= 1
    /\ content0 # <<>>
    /\ Len(content[cur]) > Len(content0)
    /\ IsPrefix(content0, content[cur])

\* C19: a 200 or 206 response whose content-range header is absent or has no
\* total does not make the attempt fail: its body is streamed, and the
\* invocation goes on to Completed or is still streaming.
C19_BadContentRangeStillStreams ==
    content_range \in BadContentRanges
        => (pc \in {"stream", "returned"} /\ outcome[cur] \in {"none", "Completed"})

\* C20: an invocation makes at most max_attempts requests and at most
\* max_attempts - 1 sleeps, whatever the failures and whether or not a long
\* attempt reset the displayed counter: every request but the one in hand has
\* been counted in total_attempts, every sleep follows a counted failure that
\* left the budget unspent, a request is made only with budget left, and the
\* prompt is reached with exactly max_attempts requests made.
C20_AttemptsAndSleepsAreBounded ==
    /\ gets <= max_attempts
    /\ sleeps <= max_attempts - 1
    /\ total_attempts <= max_attempts
    /\ gets <= total_attempts + 1
    /\ sleeps <= total_attempts
    /\ (pc \in {"attempt", "stream", "sleep_conn", "sleep_exc"}
            => total_attempts < max_attempts)
    /\ (pc = "ask" => gets = max_attempts /\ sleeps = max_attempts - 1)

C20_Witness ==
    /\ pc = "ask"
    /\ gets = max_attempts
    /\ sleeps = max_attempts - 1
    /\ long_span
    /\ attempt < total_attempts
    /\ ~only_transient

====
